---- MODULE Spec2Model ----
(***************************************************************************)
(* LoRaCheck go-backend: the gateway status poller.                        *)
(*                                                                         *)
(* The repository holds three revisions of the backend:                    *)
(*   main   src/src/go-backend/main.go   per-link status + location        *)
(*   ts     src/unnamed/part_002         main + last-update marker         *)
(*   v1     src/src/docker-compose.yml   per-gateway status, nested lookup *)
(*          (lines 42-363)               of online, dashboard rendering    *)
(* The specifications, all over the same variables:                        *)
(*   Spec      the main revision     SpecTS  the ts revision               *)
(*   SpecV1    the v1 revision       SpecLive Spec with a fair scheduler   *)
(*   SpecFetch the status fetchers of the three revisions, each applied to *)
(*             one response                                                *)
(*   SpecInit  init() applied to one FETCH_INTERVAL value                  *)
(***************************************************************************)
EXTENDS Integers, Sequences, FiniteSets, TLC

VARIABLES
    env,            \* FETCH_INTERVAL in the process environment (a sequence of characters, or Unset)
    fetchInterval,  \* var fetchInterval time.Duration (an int64, as 8 bytes, little endian)
    file,           \* config/gateways.json as the process finds it
    gateways,       \* gatewaysFile.Gateways once loaded
    mainpc,         \* position of the main goroutine
    pc,             \* position of the MonitorGateways goroutine
    gi,             \* index of the gateway MonitorGateways is at
    ci,             \* index of the check UpdateGatewayStatus is at
    result,         \* what the fetch of the current check returned
    linkStatus,     \* gateway_link_status: <<gateway_name, link_url>> -> value
    location,       \* gateway_location: <<gateway_name, latitude, longitude>> -> value
    lastUpdate,     \* gateway_last_update_timestamp: <<gateway_name, last_update>> -> value
    onlineStatus,   \* gateway_online_status (v1): <<name, latitude, longitude>> -> value
    ri,             \* v1: index of the gateway main is rendering the dashboard of
    dashboards,     \* the dashboard files on disk (v1): path -> the gateway rendered into it
    scraped,        \* what GET /metrics returned, in the state a scrape leads to
    cycle,          \* history: number of the cycle MonitorGateways is in, counted up to MaxCycles
    log,            \* history: the fetches of the current cycle, in order
    pubs,           \* history: the Set calls of the current cycle, in order
    lastFetched,    \* history: link-status key -> online of the latest completed fetch of that link
    before,         \* history: what lastFetched held for the link fetched last, until its Set
    written,        \* history: the link-status series a Set has completed on
    markers,        \* history: the marker series, <<vector, labels>>, a Set has completed on
    arg,            \* SpecFetch: the gateway name and HTTP response a fetcher is applied to
    ret             \* SpecFetch: the fetcher applied and what it returned

vars == <<env, fetchInterval, file, gateways, mainpc, pc, gi, ci, result,
          linkStatus, location, lastUpdate, onlineStatus, ri, dashboards, scraped,
          cycle, log, pubs, lastFetched, before, written, markers, arg, ret>>

progVars == <<env, fetchInterval, file, gateways, mainpc, pc, gi, ci, result,
              linkStatus, location, lastUpdate, onlineStatus, ri, dashboards, scraped,
              cycle, log, pubs, lastFetched, before, written, markers>>

mainVars == <<env, fetchInterval, file, gateways, mainpc, ri, dashboards>>

registryVars == <<linkStatus, location, lastUpdate, onlineStatus>>

historyVars == <<cycle, log, pubs, lastFetched, before, written, markers>>

fetchVars == <<arg, ret>>

(***************************************************************************)
(* JSON values as encoding/json decodes them into interface{}.             *)
(***************************************************************************)
JNull == [t |-> "null"]

JNum == [t |-> "num"]

JBool(b) == [t |-> "bool", b |-> b]

JStr(s) == [t |-> "str", s |-> s]

JObj(o) == [t |-> "obj", o |-> o]

JArr == [t |-> "arr"]

\* A response body that is not JSON at all (HTML, truncated text, empty).
Garbage == [t |-> "garbage"]

\* Marks a key an object does not carry.
Absent == [t |-> "absent"]

\* The nil map: what a map[string]interface{} variable holds before Unmarshal
\* fills it, and still holds after Unmarshal of the JSON text null.
NilMap == <<>>

\* The key the upstream nests a gateway's status under in the bodies drawn here.
NestedKey == "gw1"

\* The object with the given values under "online", "updatedAt" and NestedKey.
ObjOf(on, up, ne) ==
    LET keys == (IF on = Absent THEN {} ELSE {"online"})
                \cup (IF up = Absent THEN {} ELSE {"updatedAt"})
                \cup (IF ne = Absent THEN {} ELSE {NestedKey})
    IN  JObj([k \in keys |-> IF k = "online" THEN on
                             ELSE IF k = "updatedAt" THEN up ELSE ne])

(***************************************************************************)
(* time.Time and the RFC 3339 layout.  A time is its number in TimeTable;  *)
(* ZeroTime is time.Time{}, 0001-01-01T00:00:00Z.                          *)
(***************************************************************************)
ZeroTime == 0

TimeTable ==
    [s \in {"0001-01-01T00:00:00Z", "2024-01-01T00:00:00Z", "2024-06-01T12:00:00Z"} |->
        IF s = "0001-01-01T00:00:00Z" THEN ZeroTime
        ELSE IF s = "2024-01-01T00:00:00Z" THEN 1 ELSE 2]

Times == {TimeTable[s] : s \in DOMAIN TimeTable}

\* time.Parse(time.RFC3339, s): an error for a string not in the layout.
ParseRFC3339(s) ==
    IF s \in DOMAIN TimeTable THEN [err |-> FALSE, t |-> TimeTable[s]]
    ELSE [err |-> TRUE, t |-> ZeroTime]

\* t.Format(time.RFC3339)
FormatRFC3339(t) == CHOOSE s \in DOMAIN TimeTable : TimeTable[s] = t

(***************************************************************************)
(* What http.Get and ioutil.ReadAll can hand a fetcher.                    *)
(***************************************************************************)
StatusOK == 200

Statuses == {StatusOK, 500}

OnlineValues == {Absent, JBool(TRUE), JBool(FALSE), JStr("yes")}

UpdatedAtValues ==
    {Absent, JStr("0001-01-01T00:00:00Z"), JStr("2024-01-01T00:00:00Z"),
     JStr("2024-06-01T12:00:00Z"), JStr("2024-01-01 00:00:00"), JNum}

NestedValues ==
    {Absent, ObjOf(JBool(TRUE), Absent, Absent), ObjOf(JBool(FALSE), Absent, Absent),
     ObjOf(JStr("yes"), Absent, Absent), ObjOf(Absent, Absent, Absent), JNum, JNull}

Bodies ==
    {Garbage, JNull, JArr}
    \cup {ObjOf(on, up, ne) : on \in OnlineValues, up \in UpdatedAtValues, ne \in NestedValues}

Responses ==
    {[kind |-> "transport"]}
    \cup {[kind |-> "http", status |-> s, readOK |-> FALSE, body |-> Garbage] : s \in Statuses}
    \cup {[kind |-> "http", status |-> s, readOK |-> TRUE, body |-> b] : s \in Statuses, b \in Bodies}

\* The responses the whole-program specifications draw for a fetch: one for
\* each way through the fetchers.
ProgramResponses ==
    {[kind |-> "transport"],
     [kind |-> "http", status |-> 500, readOK |-> TRUE,
      body |-> ObjOf(JBool(TRUE), Absent, Absent)],
     [kind |-> "http", status |-> StatusOK, readOK |-> TRUE, body |-> Garbage],
     [kind |-> "http", status |-> StatusOK, readOK |-> TRUE,
      body |-> ObjOf(Absent, Absent, Absent)],
     [kind |-> "http", status |-> StatusOK, readOK |-> TRUE,
      body |-> ObjOf(JBool(TRUE), Absent, Absent)],
     [kind |-> "http", status |-> StatusOK, readOK |-> TRUE,
      body |-> ObjOf(JBool(FALSE), JStr("2024-01-01T00:00:00Z"), Absent)],
     [kind |-> "http", status |-> StatusOK, readOK |-> TRUE,
      body |-> ObjOf(JBool(TRUE), JStr("2024-06-01T12:00:00Z"), Absent)],
     [kind |-> "http", status |-> StatusOK, readOK |-> TRUE,
      body |-> ObjOf(JBool(TRUE), JStr("2024-01-01 00:00:00"), Absent)],
     [kind |-> "http", status |-> StatusOK, readOK |-> TRUE,
      body |-> ObjOf(Absent, Absent, ObjOf(JBool(TRUE), Absent, Absent))],
     [kind |-> "http", status |-> StatusOK, readOK |-> TRUE,
      body |-> ObjOf(JStr("yes"), Absent, ObjOf(JBool(TRUE), Absent, Absent))],
     [kind |-> "http", status |-> StatusOK, readOK |-> TRUE,
      body |-> ObjOf(Absent, Absent, JNum)]}

\* json.Unmarshal(body, &result) with result a map[string]interface{}.
Unmarshal(body) ==
    IF body.t = "obj" THEN [err |-> FALSE, m |-> body.o]
    ELSE IF body.t = "null" THEN [err |-> FALSE, m |-> NilMap]
    ELSE [err |-> TRUE, m |-> NilMap]

\* v, ok := m[k]
Has(m, k) == k \in DOMAIN m

\* _, ok := m[k].(bool)
IsBool(m, k) == Has(m, k) /\ m[k].t = "bool"

\* _, ok := m[k].(string)
IsString(m, k) == Has(m, k) /\ m[k].t = "str"

(***************************************************************************)
(* Variants of the fetchers, each with one plausible defect.  No           *)
(* specification uses them; a property that tells the fetchers from their  *)
(* variants says something about the fetchers.                             *)
(***************************************************************************)
\* Without the check of resp.StatusCode.
FetchGatewayLinkStatusNoStatusCheck(resp) ==
    IF resp.kind = "transport" THEN FALSE
    ELSE IF ~resp.readOK THEN FALSE
    ELSE LET u == Unmarshal(resp.body) IN
         IF u.err THEN FALSE
         ELSE IF IsBool(u.m, "online") THEN u.m["online"].b
         ELSE FALSE

\* Returning the ok of the type assertion in place of its value.
FetchGatewayLinkStatusOk(resp) ==
    IF resp.kind = "transport" THEN FALSE
    ELSE IF resp.status # StatusOK THEN FALSE
    ELSE IF ~resp.readOK THEN FALSE
    ELSE LET u == Unmarshal(resp.body) IN
         IF u.err THEN FALSE
         ELSE IsBool(u.m, "online")

\* Treating a body without a usable updatedAt as a failed fetch.
FetchGatewayLinkStatusTSStrict(resp) ==
    IF resp.kind = "transport" THEN [online |-> FALSE, updatedAt |-> ZeroTime]
    ELSE IF resp.status # StatusOK THEN [online |-> FALSE, updatedAt |-> ZeroTime]
    ELSE IF ~resp.readOK THEN [online |-> FALSE, updatedAt |-> ZeroTime]
    ELSE LET u == Unmarshal(resp.body) IN
         IF u.err THEN [online |-> FALSE, updatedAt |-> ZeroTime]
         ELSE IF ~IsBool(u.m, "online") THEN [online |-> FALSE, updatedAt |-> ZeroTime]
         ELSE IF ~IsString(u.m, "updatedAt") THEN [online |-> FALSE, updatedAt |-> ZeroTime]
         ELSE LET p == ParseRFC3339(u.m["updatedAt"].s) IN
              IF p.err THEN [online |-> FALSE, updatedAt |-> ZeroTime]
              ELSE [online |-> u.m["online"].b, updatedAt |-> p.t]

(***************************************************************************)
(* main: FetchGatewayLinkStatus(url) bool                                  *)
(***************************************************************************)
FetchGatewayLinkStatus(resp) ==
    IF resp.kind = "transport" THEN FALSE
    ELSE IF resp.status # StatusOK THEN FALSE
    ELSE IF ~resp.readOK THEN FALSE
    ELSE LET u == Unmarshal(resp.body) IN
         IF u.err THEN FALSE
         ELSE IF IsBool(u.m, "online") THEN u.m["online"].b
         ELSE FALSE

(***************************************************************************)
(* ts: FetchGatewayLinkStatus(url) (bool, time.Time)                       *)
(***************************************************************************)
FetchGatewayLinkStatusTS(resp) ==
    IF resp.kind = "transport" THEN [online |-> FALSE, updatedAt |-> ZeroTime]
    ELSE IF resp.status # StatusOK THEN [online |-> FALSE, updatedAt |-> ZeroTime]
    ELSE IF ~resp.readOK THEN [online |-> FALSE, updatedAt |-> ZeroTime]
    ELSE LET u == Unmarshal(resp.body) IN
         IF u.err THEN [online |-> FALSE, updatedAt |-> ZeroTime]
         ELSE IF ~IsBool(u.m, "online") THEN [online |-> FALSE, updatedAt |-> ZeroTime]
         ELSE LET online == u.m["online"].b IN
              IF ~IsString(u.m, "updatedAt") THEN [online |-> online, updatedAt |-> ZeroTime]
              ELSE LET p == ParseRFC3339(u.m["updatedAt"].s) IN
                   IF p.err THEN [online |-> online, updatedAt |-> ZeroTime]
                   ELSE [online |-> online, updatedAt |-> p.t]

(***************************************************************************)
(* v1: one iteration of the loop of FetchAndParseGatewayStatus(gateway):   *)
(* "true"/"false" when the iteration returns, "next" when it falls through *)
(* to the next check, "panic" when the unchecked type assertion            *)
(* val.(map[string]interface{}) meets a value that is no object.           *)
(***************************************************************************)
CheckIterationV1(name, resp) ==
    IF resp.kind = "transport" THEN "false"
    ELSE IF ~resp.readOK THEN "false"
    ELSE LET u == Unmarshal(resp.body) IN
         IF u.err THEN "false"
         ELSE IF Has(u.m, "online")
              THEN IF u.m["online"].t = "bool"
                   THEN (IF u.m["online"].b THEN "true" ELSE "false")
                   ELSE "next"
         ELSE IF Has(u.m, name)
              THEN IF u.m[name].t # "obj" THEN "panic"
                   ELSE IF IsBool(u.m[name].o, "online")
                        THEN (IF u.m[name].o["online"].b THEN "true" ELSE "false")
                        ELSE "next"
         ELSE "next"

\* v1: FetchAndParseGatewayStatus over the responses its checks get, in order:
\* the first iteration that returns decides; none returning gives false.
RECURSIVE FetchAndParseGatewayStatus(_, _)
FetchAndParseGatewayStatus(name, resps) ==
    IF resps = <<>> THEN "false"
    ELSE LET r == CheckIterationV1(name, Head(resps)) IN
         IF r = "next" THEN FetchAndParseGatewayStatus(name, Tail(resps)) ELSE r

(***************************************************************************)
(* int64 arithmetic.  An int64 is its two's complement, 8 bytes, least     *)
(* significant first, so that products wrap exactly as Go's do.            *)
(***************************************************************************)
Byte == 256

Int64Bytes == 8

ByteAt(a, i) == IF i \in DOMAIN a THEN a[i] ELSE 0

\* Column k of the schoolbook product of a and b.
Column(a, b, k) ==
    LET RECURSIVE sum(_)
        sum(i) == IF i > k THEN 0 ELSE ByteAt(a, i) * ByteAt(b, k + 1 - i) + sum(i + 1)
    IN  sum(1)

\* The low n bytes of a * b.
MulBytes(a, b, n) ==
    LET RECURSIVE go(_, _)
        go(k, carry) ==
            IF k > n THEN <<>>
            ELSE LET c == Column(a, b, k) + carry
                 IN  <<c % Byte>> \o go(k + 1, c \div Byte)
    IN  go(1, 0)

\* a * b as Go computes it on int64: the product modulo 2^64.
Mul64(a, b) == MulBytes(a, b, Int64Bytes)

\* The bytes of a small natural.
OfNat(n) ==
    LET RECURSIVE go(_, _)
        go(k, m) == IF k > Int64Bytes THEN <<>> ELSE <<m % Byte>> \o go(k + 1, m \div Byte)
    IN  go(1, n)

IsZero64(a) == \A i \in DOMAIN a : a[i] = 0

IsNegative64(a) == a[Int64Bytes] >= 128

IsPositive64(a) == ~IsNegative64(a) /\ ~IsZero64(a)

\* const time.Minute = 60 * 1000 * 1000 * 1000 nanoseconds = 0x0D_F847_5800.
Minute == <<0, 88, 71, 248, 13, 0, 0, 0>>

\* The mathematical product a * b fits an int64 (a, b non-negative int64).
FitsInt64(a, b) ==
    LET w == MulBytes(a, b, 2 * Int64Bytes)
    IN  /\ \A i \in (Int64Bytes + 1)..(2 * Int64Bytes) : w[i] = 0
        /\ w[Int64Bytes] < 128

(***************************************************************************)
(* strconv.Atoi on a string given as its characters: an optional sign and  *)
(* decimal digits, in the range of int (64 bits); anything else an error.  *)
(* The value is kept as sign and magnitude.                                *)
(***************************************************************************)
Digits == {"0", "1", "2", "3", "4", "5", "6", "7", "8", "9"}

DigitValue(c) ==
    CASE c = "0" -> 0 [] c = "1" -> 1 [] c = "2" -> 2 [] c = "3" -> 3 [] c = "4" -> 4
      [] c = "5" -> 5 [] c = "6" -> 6 [] c = "7" -> 7 [] c = "8" -> 8 [] c = "9" -> 9

\* mag * 10 + d, with whether it left 64 bits.
TimesTenPlus(mag, d) ==
    LET RECURSIVE go(_, _)
        go(k, carry) ==
            IF k > Int64Bytes THEN <<carry>>
            ELSE LET c == mag[k] * 10 + carry
                 IN  <<c % Byte>> \o go(k + 1, c \div Byte)
        r == go(1, d)
    IN  [mag |-> SubSeq(r, 1, Int64Bytes), over |-> r[Int64Bytes + 1] # 0]

RECURSIVE ParseDigits(_, _, _)
ParseDigits(s, mag, over) ==
    IF s = <<>> THEN [mag |-> mag, over |-> over]
    ELSE LET n == TimesTenPlus(mag, DigitValue(Head(s)))
         IN  IF n.over THEN ParseDigits(Tail(s), n.mag, TRUE)
             ELSE ParseDigits(Tail(s), n.mag, over)

Atoi(s) ==
    LET signed == s # <<>> /\ Head(s) \in {"-", "+"}
        neg    == s # <<>> /\ Head(s) = "-"
        body   == IF signed THEN Tail(s) ELSE s
        fail   == [err |-> TRUE, neg |-> FALSE, mag |-> OfNat(0)]
    IN  IF body = <<>> \/ \E i \in DOMAIN body : body[i] \notin Digits THEN fail
        ELSE LET p == ParseDigits(body, OfNat(0), FALSE)
                 \* |n| = 2^63 is in range only for a negative n
                 top == p.mag[Int64Bytes] >= 128
                 min == neg /\ p.mag = <<0, 0, 0, 0, 0, 0, 0, 128>>
             IN  IF p.over \/ (top /\ ~min) THEN fail
                 ELSE [err |-> FALSE, neg |-> neg /\ ~IsZero64(p.mag), mag |-> p.mag]

\* os.Getenv: the empty string for a variable that is not set.
Getenv(e) == IF e.set THEN e.val ELSE <<>>

\* init(): the interval fetchInterval is set to.
IntervalFromEnv(e) ==
    LET a == Atoi(Getenv(e))
    IN  IF a.err \/ a.neg \/ IsZero64(a.mag) THEN Minute
        ELSE Mul64(a.mag, Minute)

(***************************************************************************)
(* The values of FETCH_INTERVAL drawn.                                     *)
(***************************************************************************)
MaxEnvLen == 3

EnvAlphabet == {"-", "0", "1", "7", "x"}

\* Long values: the last n whose n minutes fit an int64 and the first that
\* do not, 2^53, the largest int64 and the first integer past it.
LongEnvValues ==
    {<<"1", "5", "3", "7", "2", "2", "8", "6", "7">>,
     <<"1", "5", "3", "7", "2", "2", "8", "6", "8">>,
     <<"9", "0", "0", "7", "1", "9", "9", "2", "5", "4", "7", "4", "0", "9", "9", "2">>,
     <<"9", "2", "2", "3", "3", "7", "2", "0", "3", "6", "8", "5", "4", "7", "7", "5", "8", "0", "7">>,
     <<"9", "2", "2", "3", "3", "7", "2", "0", "3", "6", "8", "5", "4", "7", "7", "5", "8", "0", "8">>}

EnvStrings ==
    UNION {[1..n -> EnvAlphabet] : n \in 0..MaxEnvLen} \cup LongEnvValues

EnvValues == {[set |-> FALSE]} \cup {[set |-> TRUE, val |-> s] : s \in EnvStrings}

\* The whole-program specifications start with FETCH_INTERVAL not set, as
\* docker-compose.yml starts the go-backend service.
ProgramEnvValues == {[set |-> FALSE]}

NoInterval == <<>>


(***************************************************************************)
(* config/gateways.json                                                    *)
(***************************************************************************)
MaxGateways == 2

Check(url) == [type |-> "http", url |-> url]

Gateway(name, lat, lon, checks) ==
    [name |-> name, latitude |-> lat, longitude |-> lon, checks |-> checks]

\* The gateways a configuration is made of: one with two links, one with no
\* check at all and one with a single link.  A configuration may list the same
\* gateway twice: names and URLs need not be unique.
GatewayPool ==
    {Gateway("gw1", "52.37", "4.9", <<Check("u1"), Check("u2")>>),
     Gateway("gw2", "0", "0", <<>>),
     Gateway("gw2", "52.37", "4.9", <<Check("u1")>>)}

GatewayNames == {g.name : g \in GatewayPool}

Configs == UNION {[1..n -> GatewayPool] : n \in 0..MaxGateways}

ConfigFiles ==
    {[readable |-> FALSE], [readable |-> TRUE, valid |-> FALSE]}
    \cup {[readable |-> TRUE, valid |-> TRUE, gateways |-> c] : c \in Configs}

\* LoadGatewaysConfig(filePath): the error of ReadFile or of Unmarshal, or the file's gateways.
LoadGatewaysConfig(f) ==
    IF ~f.readable THEN [err |-> TRUE, gateways |-> <<>>]
    ELSE IF ~f.valid THEN [err |-> TRUE, gateways |-> <<>>]
    ELSE [err |-> FALSE, gateways |-> f.gateways]

\* fmt.Sprintf("%f", x): six digits after the point.
SprintfF(x) ==
    CASE x = "52.37" -> "52.370000"
      [] x = "4.9"   -> "4.900000"
      [] x = "0"     -> "0.000000"

(***************************************************************************)
(* prometheus.GaugeVec: the series of a vector, label values -> value.     *)
(***************************************************************************)
NoSeries == <<>>

\* vec.With(labels): the series of these labels, created with value 0 when new.
With(vec, labels) == IF labels \in DOMAIN vec THEN vec ELSE vec @@ (labels :> 0)

\* A variant of Set with a defect: gauge.Add(v) in its place.
SetAdd(vec, labels, v) == [vec EXCEPT ![labels] = @ + v]

\* gauge.Set(v) on the series vec.With(labels) returned.
Set(vec, labels, v) == [vec EXCEPT ![labels] = v]

BoolToFloat64(b) == IF b THEN 1 ELSE 0

(***************************************************************************)
(* The state a process starts in.                                          *)
(***************************************************************************)
NoResult == [online |-> FALSE]

NoScrape == [served |-> FALSE]

NoFetch == [has |-> FALSE]

NoCall == [fn |-> "none"]

NoArg == [name |-> "gw1", resp |-> [kind |-> "transport"]]

ProgramStart ==
    /\ fetchInterval = NoInterval
    /\ gateways = <<>>
    /\ mainpc = "init"
    /\ pc = "off"
    /\ gi = 1
    /\ ci = 1
    /\ result = NoResult
    /\ linkStatus = NoSeries
    /\ location = NoSeries
    /\ lastUpdate = NoSeries
    /\ onlineStatus = NoSeries
    /\ ri = 1
    /\ dashboards = NoSeries
    /\ scraped = NoScrape
    /\ cycle = 0
    /\ log = <<>>
    /\ pubs = <<>>
    /\ lastFetched = NoSeries
    /\ before = NoFetch
    /\ written = {}
    /\ markers = {}

Init ==
    /\ env \in ProgramEnvValues
    /\ file \in ConfigFiles
    /\ ProgramStart
    /\ arg = NoArg
    /\ ret = NoCall

(***************************************************************************)
(* The main goroutine (main and ts revisions).                             *)
(***************************************************************************)
\* func init(): runs before main.
GoInit ==
    /\ mainpc = "init"
    /\ fetchInterval' = IntervalFromEnv(env)
    /\ mainpc' = "main"
    /\ UNCHANGED <<env, file, gateways, ri, dashboards, pc, gi, ci, result>>
    /\ UNCHANGED <<registryVars, historyVars, fetchVars>>
    /\ scraped' = NoScrape

\* A variant of MainLoad with a defect: the error of LoadGatewaysConfig
\* logged, and main going on with no gateways.
MainLoadContinue ==
    /\ mainpc = "main"
    /\ mainpc' = "loaded"
    /\ gateways' = LoadGatewaysConfig(file).gateways
    /\ UNCHANGED <<env, fetchInterval, file, ri, dashboards, pc, gi, ci, result>>
    /\ UNCHANGED <<registryVars, historyVars, fetchVars>>
    /\ scraped' = NoScrape

\* main: LoadGatewaysConfig, log.Fatalf on its error.
MainLoad ==
    /\ mainpc = "main"
    /\ LET l == LoadGatewaysConfig(file) IN
         IF l.err THEN mainpc' = "exited" /\ UNCHANGED gateways
         ELSE mainpc' = "loaded" /\ gateways' = l.gateways
    /\ UNCHANGED <<env, fetchInterval, file, ri, dashboards, pc, gi, ci, result>>
    /\ UNCHANGED <<registryVars, historyVars, fetchVars>>
    /\ scraped' = NoScrape

\* main: go MonitorGateways(gatewaysFile)
MainGo ==
    /\ mainpc = "loaded"
    /\ mainpc' = "handle"
    /\ pc' = "gateway"
    /\ gi' = 1
    /\ cycle' = 1
    /\ UNCHANGED <<env, fetchInterval, file, gateways, ri, dashboards, ci, result>>
    /\ UNCHANGED <<registryVars, log, pubs, lastFetched, before, written, markers, fetchVars>>
    /\ scraped' = NoScrape

\* main: http.Handle and http.ListenAndServe(":9100", nil) once it listens.
MainServe ==
    /\ mainpc = "handle"
    /\ mainpc' = "serve"
    /\ UNCHANGED <<env, fetchInterval, file, gateways, ri, dashboards, pc, gi, ci, result>>
    /\ UNCHANGED <<registryVars, historyVars, fetchVars>>
    /\ scraped' = NoScrape

\* main: log.Fatal(http.ListenAndServe(...)) when the port cannot be bound:
\* the process exits and takes the monitor goroutine with it.
MainListenFail ==
    /\ mainpc = "handle"
    /\ mainpc' = "exited"
    /\ UNCHANGED <<env, fetchInterval, file, gateways, ri, dashboards, pc, gi, ci, result>>
    /\ UNCHANGED <<registryVars, historyVars, fetchVars>>
    /\ scraped' = NoScrape

Running == mainpc \in {"handle", "serve"}

(***************************************************************************)
(* MonitorGateways and UpdateGatewayStatus (main revision).                *)
(***************************************************************************)
MaxCycles == 2

gateway == gateways[gi]

check == gateway.checks[ci]

LocationLabels(g) == <<g.name, SprintfF(g.latitude), SprintfF(g.longitude)>>

LinkLabels(g, c) == <<g.name, c.url>>

\* A response that is a fetch failure: transport error, non-success status,
\* unreadable or malformed body, or no boolean online field.
FetchFailure(resp) ==
    \/ resp.kind = "transport"
    \/ resp.status # StatusOK
    \/ ~resp.readOK
    \/ Unmarshal(resp.body).err
    \/ ~IsBool(Unmarshal(resp.body).m, "online")

\* What every fetch leaves in the history.
Fetched(resp, online) ==
    /\ log' = Append(log, [gi |-> gi, ci |-> ci, failed |-> FetchFailure(resp), online |-> online])
    /\ before' = IF LinkLabels(gateway, check) \in DOMAIN lastFetched
                 THEN [has |-> TRUE, online |-> lastFetched[LinkLabels(gateway, check)]]
                 ELSE NoFetch
    /\ lastFetched' = [k \in DOMAIN lastFetched \cup {LinkLabels(gateway, check)} |->
                          IF k = LinkLabels(gateway, check) THEN online ELSE lastFetched[k]]

\* What every Set leaves in the history.
Published(vec, labels, v) ==
    pubs' = Append(pubs, [vec |-> vec, labels |-> labels, v |-> v, gi |-> gi, ci |-> ci])

(***************************************************************************)
(* Variants of the steps of UpdateGatewayStatus, each with one plausible   *)
(* defect.  No specification uses them.                                    *)
(***************************************************************************)
\* The location published only for a gateway that has checks.
LocationWithIfChecks ==
    /\ Running /\ pc = "locWith"
    /\ IF Len(gateway.checks) = 0
       THEN /\ gi' = gi + 1
            /\ pc' = "gateway"
            /\ UNCHANGED location
       ELSE /\ location' = With(location, LocationLabels(gateway))
            /\ pc' = "locSet"
            /\ UNCHANGED gi
    /\ UNCHANGED <<mainVars, ci, result, linkStatus, lastUpdate, onlineStatus>>
    /\ UNCHANGED <<historyVars, fetchVars>>
    /\ scraped' = NoScrape

\* A failed fetch tried a second time at once.
FetchWithRetry ==
    /\ Running /\ pc = "check"
    /\ ci <= Len(gateway.checks)
    /\ \E first, second \in ProgramResponses :
         LET resp == IF FetchFailure(first) THEN second ELSE first
             entry(r) == [gi |-> gi, ci |-> ci, failed |-> FetchFailure(r),
                          online |-> FetchGatewayLinkStatus(r)]
         IN  /\ result' = [online |-> FetchGatewayLinkStatus(resp)]
             /\ log' = IF FetchFailure(first)
                       THEN log \o <<entry(first), entry(second)>>
                       ELSE Append(log, entry(first))
             /\ before' = IF LinkLabels(gateway, check) \in DOMAIN lastFetched
                          THEN [has |-> TRUE, online |-> lastFetched[LinkLabels(gateway, check)]]
                          ELSE NoFetch
             /\ lastFetched' = [k \in DOMAIN lastFetched \cup {LinkLabels(gateway, check)} |->
                                   IF k = LinkLabels(gateway, check)
                                   THEN FetchGatewayLinkStatus(resp) ELSE lastFetched[k]]
    /\ pc' = "linkWith"
    /\ UNCHANGED <<mainVars, gi, ci, registryVars, cycle, pubs, written, markers, fetchVars>>
    /\ scraped' = NoScrape

\* MonitorGateways returning when a fetch has failed.
FetchOrReturn ==
    /\ Running /\ pc = "check"
    /\ ci <= Len(gateway.checks)
    /\ \E resp \in ProgramResponses :
         /\ result' = [online |-> FetchGatewayLinkStatus(resp)]
         /\ Fetched(resp, FetchGatewayLinkStatus(resp))
         /\ pc' = IF FetchFailure(resp) THEN "off" ELSE "linkWith"
    /\ UNCHANGED <<mainVars, gi, ci, registryVars, cycle, pubs, written, markers, fetchVars>>
    /\ scraped' = NoScrape

\* The sleep inside the loop over the gateways, after each gateway.
ChecksDoneSleep ==
    /\ Running /\ pc = "check"
    /\ ci > Len(gateway.checks)
    /\ gi' = gi + 1
    /\ pc' = "sleep"
    /\ UNCHANGED <<mainVars, ci, result, registryVars, historyVars, fetchVars>>
    /\ scraped' = NoScrape

\* The location set to the status of the link fetched last.
LocationSetStatus ==
    /\ Running /\ pc = "locSet"
    /\ location' = Set(location, LocationLabels(gateway), BoolToFloat64(result.online))
    /\ Published("location", LocationLabels(gateway), BoolToFloat64(result.online))
    /\ markers' = markers \cup {<<"location", LocationLabels(gateway)>>}
    /\ pc' = "check"
    /\ ci' = 1
    /\ UNCHANGED <<mainVars, gi, result, linkStatus, lastUpdate, onlineStatus>>
    /\ UNCHANGED <<cycle, log, lastFetched, before, written, fetchVars>>
    /\ scraped' = NoScrape

\* The status set only when the link was found online.
LinkSetOnlyOnline ==
    /\ Running /\ pc = "linkSet"
    /\ linkStatus' = IF result.online
                     THEN Set(linkStatus, LinkLabels(gateway, check), 1)
                     ELSE linkStatus
    /\ Published("link", LinkLabels(gateway, check), BoolToFloat64(result.online))
    /\ written' = written \cup {LinkLabels(gateway, check)}
    /\ ci' = ci + 1
    /\ pc' = "check"
    /\ UNCHANGED <<mainVars, gi, result, location, lastUpdate, onlineStatus>>
    /\ before' = NoFetch
    /\ UNCHANGED <<cycle, log, lastFetched, markers, fetchVars>>
    /\ scraped' = NoScrape

\* The series deleted and created again on every publish.
LinkWithReset ==
    /\ Running /\ pc = "linkWith"
    /\ linkStatus' = [k \in DOMAIN linkStatus \cup {LinkLabels(gateway, check)} |->
                         IF k = LinkLabels(gateway, check) THEN 0 ELSE linkStatus[k]]
    /\ pc' = "linkSet"
    /\ UNCHANGED <<mainVars, gi, ci, result, location, lastUpdate, onlineStatus>>
    /\ UNCHANGED <<historyVars, fetchVars>>
    /\ scraped' = NoScrape

\* UpdateGatewayStatus returning after the first link found offline.
LinkSetStopOnOffline ==
    /\ Running /\ pc = "linkSet"
    /\ linkStatus' = Set(linkStatus, LinkLabels(gateway, check), BoolToFloat64(result.online))
    /\ Published("link", LinkLabels(gateway, check), BoolToFloat64(result.online))
    /\ written' = written \cup {LinkLabels(gateway, check)}
    /\ IF result.online
       THEN ci' = ci + 1 /\ pc' = "check" /\ UNCHANGED gi
       ELSE gi' = gi + 1 /\ pc' = "gateway" /\ UNCHANGED ci
    /\ UNCHANGED <<mainVars, result, location, lastUpdate, onlineStatus>>
    /\ before' = NoFetch
    /\ UNCHANGED <<cycle, log, lastFetched, markers, fetchVars>>
    /\ scraped' = NoScrape

\* The status set on every series of the link URL, whatever its gateway.
LinkSetByURL ==
    /\ Running /\ pc = "linkSet"
    /\ linkStatus' = [k \in DOMAIN linkStatus |->
                         IF k[2] = check.url THEN BoolToFloat64(result.online)
                                             ELSE linkStatus[k]]
    /\ Published("link", LinkLabels(gateway, check), BoolToFloat64(result.online))
    /\ written' = written \cup {LinkLabels(gateway, check)}
    /\ ci' = ci + 1
    /\ pc' = "check"
    /\ UNCHANGED <<mainVars, gi, result, location, lastUpdate, onlineStatus>>
    /\ before' = NoFetch
    /\ UNCHANGED <<cycle, log, lastFetched, markers, fetchVars>>
    /\ scraped' = NoScrape

\* for _, gateway := range gatewaysFile.Gateways: the next gateway, or the sleep.
MonitorRange ==
    /\ Running /\ pc = "gateway"
    /\ IF gi <= Len(gateways) THEN pc' = "locWith" ELSE pc' = "sleep"
    /\ UNCHANGED <<mainVars, gi, ci, result, registryVars, historyVars, fetchVars>>
    /\ scraped' = NoScrape

\* time.Sleep(fetchInterval) returns: the next cycle.
MonitorWake ==
    /\ Running /\ pc = "sleep"
    /\ pc' = "gateway"
    /\ gi' = 1
    /\ cycle' = IF cycle < MaxCycles THEN cycle + 1 ELSE cycle
    /\ log' = <<>>
    /\ pubs' = <<>>
    /\ UNCHANGED <<mainVars, ci, result, registryVars, lastFetched, before, written, markers, fetchVars>>
    /\ scraped' = NoScrape

\* gatewayLocation.With(labels)
LocationWith ==
    /\ Running /\ pc = "locWith"
    /\ location' = With(location, LocationLabels(gateway))
    /\ pc' = "locSet"
    /\ UNCHANGED <<mainVars, gi, ci, result, linkStatus, lastUpdate, onlineStatus>>
    /\ UNCHANGED <<historyVars, fetchVars>>
    /\ scraped' = NoScrape

\* .Set(1), then the loop over gateway.Checks starts.
LocationSet ==
    /\ Running /\ pc = "locSet"
    /\ location' = Set(location, LocationLabels(gateway), 1)
    /\ Published("location", LocationLabels(gateway), 1)
    /\ markers' = markers \cup {<<"location", LocationLabels(gateway)>>}
    /\ pc' = "check"
    /\ ci' = 1
    /\ UNCHANGED <<mainVars, gi, result, linkStatus, lastUpdate, onlineStatus>>
    /\ UNCHANGED <<cycle, log, lastFetched, before, written, fetchVars>>
    /\ scraped' = NoScrape

\* for _, check := range gateway.Checks: past the last check UpdateGatewayStatus returns.
ChecksDone ==
    /\ Running /\ pc = "check"
    /\ ci > Len(gateway.checks)
    /\ gi' = gi + 1
    /\ pc' = "gateway"
    /\ UNCHANGED <<mainVars, ci, result, registryVars, historyVars, fetchVars>>
    /\ scraped' = NoScrape

\* FetchGatewayLinkStatus(check.URL)
Fetch ==
    /\ Running /\ pc = "check"
    /\ ci <= Len(gateway.checks)
    /\ \E resp \in ProgramResponses :
         /\ result' = [online |-> FetchGatewayLinkStatus(resp)]
         /\ Fetched(resp, FetchGatewayLinkStatus(resp))
    /\ pc' = "linkWith"
    /\ UNCHANGED <<mainVars, gi, ci, registryVars, cycle, pubs, written, markers, fetchVars>>
    /\ scraped' = NoScrape

\* gatewayLinkStatus.With(labels)
LinkWith ==
    /\ Running /\ pc = "linkWith"
    /\ linkStatus' = With(linkStatus, LinkLabels(gateway, check))
    /\ pc' = "linkSet"
    /\ UNCHANGED <<mainVars, gi, ci, result, location, lastUpdate, onlineStatus>>
    /\ UNCHANGED <<historyVars, fetchVars>>
    /\ scraped' = NoScrape

\* .Set(status), then the next check.
LinkSet ==
    /\ Running /\ pc = "linkSet"
    /\ linkStatus' = Set(linkStatus, LinkLabels(gateway, check), BoolToFloat64(result.online))
    /\ Published("link", LinkLabels(gateway, check), BoolToFloat64(result.online))
    /\ written' = written \cup {LinkLabels(gateway, check)}
    /\ ci' = ci + 1
    /\ pc' = "check"
    /\ UNCHANGED <<mainVars, gi, result, location, lastUpdate, onlineStatus>>
    /\ before' = NoFetch
    /\ UNCHANGED <<cycle, log, lastFetched, markers, fetchVars>>
    /\ scraped' = NoScrape

(***************************************************************************)
(* GET /metrics: promhttp.Handler() gathers every series of the registry.  *)
(***************************************************************************)
\* The response carries the registry as it is at the instant of the scrape;
\* scraped holds it in the state the scrape leads to, and no longer.
Scrape ==
    /\ mainpc = "serve"
    /\ scraped' = [served |-> TRUE, linkStatus |-> linkStatus, location |-> location,
                   lastUpdate |-> lastUpdate, onlineStatus |-> onlineStatus]
    /\ UNCHANGED <<mainVars, pc, gi, ci, result, registryVars, historyVars, fetchVars>>

Next ==
    \/ GoInit \/ MainLoad \/ MainGo \/ MainServe \/ MainListenFail
    \/ MonitorRange \/ MonitorWake \/ LocationWith \/ LocationSet
    \/ ChecksDone \/ Fetch \/ LinkWith \/ LinkSet
    \/ Scrape

Spec == Init /\ [][Next]_vars

\* The steps of the MonitorGateways goroutine.
MonitorStep ==
    \/ MonitorRange \/ MonitorWake \/ LocationWith \/ LocationSet
    \/ ChecksDone \/ Fetch \/ LinkWith \/ LinkSet

\* SpecLive: Spec with a goroutine that is scheduled as long as the process
\* lives, every http.Get returning and every time.Sleep ending.
SpecLive == Spec /\ WF_vars(MonitorStep)


(***************************************************************************)
(* SpecInit: init() applied to every value of FETCH_INTERVAL drawn.        *)
(***************************************************************************)
InitEnv ==
    /\ env \in EnvValues
    /\ file = [readable |-> FALSE]
    /\ ProgramStart
    /\ arg = NoArg
    /\ ret = NoCall

NextInit == GoInit

SpecInit == InitEnv /\ [][NextInit]_vars

(***************************************************************************)
(* SpecFetch: each fetcher applied to every response drawn, for a gateway  *)
(* of each name.                                                           *)
(***************************************************************************)
InitFetch ==
    /\ env = [set |-> FALSE]
    /\ file = [readable |-> FALSE]
    /\ ProgramStart
    /\ arg \in [name : GatewayNames, resp : Responses]
    /\ ret = NoCall

\* main: FetchGatewayLinkStatus
CallFetchMain ==
    /\ ret = NoCall
    /\ ret' = [fn |-> "main", online |-> FetchGatewayLinkStatus(arg.resp)]
    /\ UNCHANGED <<progVars, arg>>

\* ts: FetchGatewayLinkStatus
CallFetchTS ==
    /\ ret = NoCall
    /\ ret' = [fn |-> "ts"] @@ FetchGatewayLinkStatusTS(arg.resp)
    /\ UNCHANGED <<progVars, arg>>

\* v1: FetchAndParseGatewayStatus of a gateway with this one check
CallFetchV1 ==
    /\ ret = NoCall
    /\ ret' = [fn |-> "v1", out |-> FetchAndParseGatewayStatus(arg.name, <<arg.resp>>)]
    /\ UNCHANGED <<progVars, arg>>

NextFetch == CallFetchMain \/ CallFetchTS \/ CallFetchV1

SpecFetch == InitFetch /\ [][NextFetch]_vars


(***************************************************************************)
(* SpecTS: the ts revision.  Its main, MonitorGateways and location steps  *)
(* are those of the main revision; UpdateGatewayStatus also publishes the  *)
(* last-update marker of every check.                                      *)
(***************************************************************************)
LastUpdateLabels(g, t) == <<g.name, FormatRFC3339(t)>>

\* online, updatedAt := FetchGatewayLinkStatus(check.URL)
FetchTS ==
    /\ Running /\ pc = "check"
    /\ ci <= Len(gateway.checks)
    /\ \E resp \in ProgramResponses :
         /\ result' = FetchGatewayLinkStatusTS(resp)
         /\ Fetched(resp, FetchGatewayLinkStatusTS(resp).online)
    /\ pc' = "linkWith"
    /\ UNCHANGED <<mainVars, gi, ci, registryVars, cycle, pubs, written, markers, fetchVars>>
    /\ scraped' = NoScrape

\* gatewayLinkStatus ... .Set(status), then the last-update marker.
LinkSetTS ==
    /\ Running /\ pc = "linkSet"
    /\ linkStatus' = Set(linkStatus, LinkLabels(gateway, check), BoolToFloat64(result.online))
    /\ Published("link", LinkLabels(gateway, check), BoolToFloat64(result.online))
    /\ written' = written \cup {LinkLabels(gateway, check)}
    /\ pc' = "luWith"
    /\ UNCHANGED <<mainVars, gi, ci, result, location, lastUpdate, onlineStatus>>
    /\ before' = NoFetch
    /\ UNCHANGED <<cycle, log, lastFetched, markers, fetchVars>>
    /\ scraped' = NoScrape

\* A variant of LastUpdateWith with a defect: the older last-update series
\* of the gateway deleted when a new one is created.
LastUpdateWithReplace ==
    /\ Running /\ pc = "luWith"
    /\ lastUpdate' =
          [k \in {q \in DOMAIN lastUpdate : q[1] # gateway.name}
                   \cup {LastUpdateLabels(gateway, result.updatedAt)} |->
              IF k \in DOMAIN lastUpdate THEN lastUpdate[k] ELSE 0]
    /\ pc' = "luSet"
    /\ UNCHANGED <<mainVars, gi, ci, result, linkStatus, location, onlineStatus>>
    /\ UNCHANGED <<historyVars, fetchVars>>
    /\ scraped' = NoScrape

\* gatewayLastUpdate.With(labels), last_update being updatedAt.Format(time.RFC3339)
LastUpdateWith ==
    /\ Running /\ pc = "luWith"
    /\ lastUpdate' = With(lastUpdate, LastUpdateLabels(gateway, result.updatedAt))
    /\ pc' = "luSet"
    /\ UNCHANGED <<mainVars, gi, ci, result, linkStatus, location, onlineStatus>>
    /\ UNCHANGED <<historyVars, fetchVars>>
    /\ scraped' = NoScrape

\* .Set(1), then the next check.
LastUpdateSet ==
    /\ Running /\ pc = "luSet"
    /\ lastUpdate' = Set(lastUpdate, LastUpdateLabels(gateway, result.updatedAt), 1)
    /\ Published("lastUpdate", LastUpdateLabels(gateway, result.updatedAt), 1)
    /\ markers' = markers \cup {<<"lastUpdate", LastUpdateLabels(gateway, result.updatedAt)>>}
    /\ ci' = ci + 1
    /\ pc' = "check"
    /\ UNCHANGED <<mainVars, gi, result, linkStatus, location, onlineStatus>>
    /\ UNCHANGED <<cycle, log, lastFetched, before, written, fetchVars>>
    /\ scraped' = NoScrape

NextTS ==
    \/ GoInit \/ MainLoad \/ MainGo \/ MainServe \/ MainListenFail
    \/ MonitorRange \/ MonitorWake \/ LocationWith \/ LocationSet
    \/ ChecksDone \/ FetchTS \/ LinkWith \/ LinkSetTS \/ LastUpdateWith \/ LastUpdateSet
    \/ Scrape

\* The ts revision keeps a series for every timestamp it has seen, which
\* multiplies its states: it is started on the configurations of at most
\* MaxGatewaysTS gateways.
MaxGatewaysTS == 1

ConfigFilesTS ==
    {f \in ConfigFiles : ~LoadGatewaysConfig(f).err => Len(f.gateways) <= MaxGatewaysTS}

InitTS ==
    /\ env \in ProgramEnvValues
    /\ file \in ConfigFilesTS
    /\ ProgramStart
    /\ arg = NoArg
    /\ ret = NoCall

SpecTS == InitTS /\ [][NextTS]_vars


(***************************************************************************)
(* SpecV1: the v1 revision.  main renders one dashboard file for each      *)
(* gateway before it starts MonitorGateways; UpdateGatewayStatus publishes *)
(* one gateway_online_status series for each gateway.                      *)
(***************************************************************************)
\* A variant of DashboardPath with a defect: one path for every gateway.
DashboardPathFixed(g) == <<"/var/lib/grafana/dashboards/", "gateway", "-dashboard.json">>

\* fmt.Sprintf("/var/lib/grafana/dashboards/%s-dashboard.json", gateway.Name)
DashboardPath(g) == <<"/var/lib/grafana/dashboards/", g.name, "-dashboard.json">>

\* text/template printing a float64 of the gateway ({{.Location.Latitude}}).
TemplateFloat(x) ==
    CASE x = "52.37" -> "52.37"
      [] x = "4.9"   -> "4.9"
      [] x = "0"     -> "0"

\* What tmpl.Execute(file, gateway) writes: the fields of the gateway the
\* template substitutes.
Rendered(g) ==
    [complete |-> TRUE, name |-> g.name,
     lat |-> TemplateFloat(g.latitude), lon |-> TemplateFloat(g.longitude)]

\* The file os.Create left when tmpl.Execute failed on it.
Truncated == [complete |-> FALSE]

\* The ways CreateDashboardFile ends: nil, the error of os.Create, the error
\* of tmpl.Execute.
RenderOutcomes == {"ok", "create", "execute"}

WriteFile(disk, path, content) ==
    [q \in DOMAIN disk \cup {path} |-> IF q = path THEN content ELSE disk[q]]

\* func init(): registers the metric; v1 reads no FETCH_INTERVAL.
GoInitV1 ==
    /\ mainpc = "init"
    /\ mainpc' = "main"
    /\ UNCHANGED <<env, fetchInterval, file, gateways, ri, dashboards, pc, gi, ci, result>>
    /\ UNCHANGED <<registryVars, historyVars, fetchVars>>
    /\ scraped' = NoScrape

\* A variant of RenderV1 with a defect: the error of CreateDashboardFile
\* logged, and the loop going on.
RenderV1Continue ==
    /\ mainpc = "loaded"
    /\ ri <= Len(gateways)
    /\ \E o \in RenderOutcomes :
         dashboards' =
            IF o = "create" THEN dashboards
            ELSE WriteFile(dashboards, DashboardPath(gateways[ri]),
                           IF o = "ok" THEN Rendered(gateways[ri]) ELSE Truncated)
    /\ ri' = ri + 1
    /\ UNCHANGED <<env, fetchInterval, file, gateways, mainpc, pc, gi, ci, result>>
    /\ UNCHANGED <<registryVars, historyVars, fetchVars>>
    /\ scraped' = NoScrape

\* main: one turn of the loop over the gateways, CreateDashboardFile(gateway)
\* and log.Fatalf on its error.
RenderV1 ==
    /\ mainpc = "loaded"
    /\ ri <= Len(gateways)
    /\ \E o \in RenderOutcomes :
         /\ dashboards' =
               IF o = "create" THEN dashboards
               ELSE WriteFile(dashboards, DashboardPath(gateways[ri]),
                              IF o = "ok" THEN Rendered(gateways[ri]) ELSE Truncated)
         /\ IF o = "ok" THEN ri' = ri + 1 /\ UNCHANGED mainpc
            ELSE mainpc' = "exited" /\ UNCHANGED ri
    /\ UNCHANGED <<env, fetchInterval, file, gateways, pc, gi, ci, result>>
    /\ UNCHANGED <<registryVars, historyVars, fetchVars>>
    /\ scraped' = NoScrape

\* main: go MonitorGateways(gatewaysFile), after the loop over the gateways.
MainGoV1 ==
    /\ mainpc = "loaded"
    /\ ri > Len(gateways)
    /\ mainpc' = "handle"
    /\ pc' = "gateway"
    /\ gi' = 1
    /\ cycle' = 1
    /\ UNCHANGED <<env, fetchInterval, file, gateways, ri, dashboards, ci, result>>
    /\ UNCHANGED <<registryVars, log, pubs, lastFetched, before, written, markers, fetchVars>>
    /\ scraped' = NoScrape

OnlineLabels(g) == <<g.name, SprintfF(g.latitude), SprintfF(g.longitude)>>

\* for _, gateway := range gatewaysFile.Gateways: UpdateGatewayStatus of the
\* next gateway, or time.Sleep(1 * time.Minute).
MonitorRangeV1 ==
    /\ Running /\ pc = "gateway"
    /\ IF gi <= Len(gateways) THEN pc' = "check" /\ ci' = 1
       ELSE pc' = "sleep" /\ UNCHANGED ci
    /\ UNCHANGED <<mainVars, gi, result, registryVars, historyVars, fetchVars>>
    /\ scraped' = NoScrape

\* FetchAndParseGatewayStatus: one turn of its loop over gateway.Checks.  A
\* panic in the goroutine ends the process.
FetchV1 ==
    /\ Running /\ pc = "check"
    /\ ci <= Len(gateway.checks)
    /\ \E resp \in ProgramResponses :
         LET r == CheckIterationV1(gateway.name, resp) IN
         /\ log' = Append(log, [gi |-> gi, ci |-> ci, failed |-> r \notin {"true", "false"},
                                online |-> r = "true"])
         /\ CASE r = "next"  -> ci' = ci + 1 /\ UNCHANGED <<pc, mainpc, result>>
              [] r = "panic" -> mainpc' = "exited" /\ UNCHANGED <<pc, ci, result>>
              [] OTHER       -> /\ result' = [online |-> r = "true"]
                                /\ pc' = "onlineWith"
                                /\ UNCHANGED <<ci, mainpc>>
    /\ UNCHANGED <<env, fetchInterval, file, gateways, ri, dashboards, gi>>
    /\ UNCHANGED <<registryVars, cycle, pubs, lastFetched, before, written, markers, fetchVars>>
    /\ scraped' = NoScrape

\* FetchAndParseGatewayStatus: past the last check, return false.
ChecksDoneV1 ==
    /\ Running /\ pc = "check"
    /\ ci > Len(gateway.checks)
    /\ result' = [online |-> FALSE]
    /\ pc' = "onlineWith"
    /\ UNCHANGED <<mainVars, gi, ci, registryVars, historyVars, fetchVars>>
    /\ scraped' = NoScrape

\* gatewayOnlineStatus.With(labels)
OnlineWith ==
    /\ Running /\ pc = "onlineWith"
    /\ onlineStatus' = With(onlineStatus, OnlineLabels(gateway))
    /\ pc' = "onlineSet"
    /\ UNCHANGED <<mainVars, gi, ci, result, linkStatus, location, lastUpdate>>
    /\ UNCHANGED <<historyVars, fetchVars>>
    /\ scraped' = NoScrape

\* .Set(boolToFloat64(online)), and UpdateGatewayStatus returns.
OnlineSet ==
    /\ Running /\ pc = "onlineSet"
    /\ onlineStatus' = Set(onlineStatus, OnlineLabels(gateway), BoolToFloat64(result.online))
    /\ Published("online", OnlineLabels(gateway), BoolToFloat64(result.online))
    /\ gi' = gi + 1
    /\ pc' = "gateway"
    /\ UNCHANGED <<mainVars, ci, result, linkStatus, location, lastUpdate>>
    /\ UNCHANGED <<cycle, log, lastFetched, before, written, markers, fetchVars>>
    /\ scraped' = NoScrape

NextV1 ==
    \/ GoInitV1 \/ MainLoad \/ RenderV1 \/ MainGoV1 \/ MainServe \/ MainListenFail
    \/ MonitorRangeV1 \/ MonitorWake \/ FetchV1 \/ ChecksDoneV1
    \/ OnlineWith \/ OnlineSet
    \/ Scrape

SpecV1 == Init /\ [][NextV1]_vars


(***************************************************************************)
(* Properties of the fetchers, checked under SpecFetch.                    *)
(***************************************************************************)
\* The call has returned from the main or the ts fetcher.
ReturnedMainOrTS == ret.fn \in {"main", "ts"}

\* The response came with a body that was read and is a JSON object.
ParsedObject(resp) ==
    /\ resp.kind = "http"
    /\ resp.readOK
    /\ resp.body.t = "obj"

\* The object carries an online status under the gateway's own name.
NestedOnline(m, name) ==
    /\ Has(m, name)
    /\ m[name].t = "obj"
    /\ IsBool(m[name].o, "online")

\* The response is one of the failures of a link: a transport failure, a
\* non-success status, a body that cannot be read or is no JSON object, or an
\* object with no online status, top-level or nested.
LinkFailure(name, resp) ==
    \/ resp.kind = "transport"
    \/ resp.status # StatusOK
    \/ ~resp.readOK
    \/ Unmarshal(resp.body).err
    \/ /\ ~IsBool(Unmarshal(resp.body).m, "online")
       /\ ~NestedOnline(Unmarshal(resp.body).m, name)

ReturnedOnline ==
    IF ret.fn = "v1" THEN ret.out = "true" ELSE ret.online

\* C5 as stated: for a 200 response whose body is an object without a
\* top-level boolean online, a field named as the gateway that holds an
\* object with a boolean online decides what the fetcher returns; a
\* top-level boolean online takes precedence over the nested one.
C5_NestedLookup ==
    (ret.fn # "none" /\ ParsedObject(arg.resp) /\ arg.resp.status = StatusOK) =>
        LET m == arg.resp.body.o IN
        /\ IsBool(m, "online") => ReturnedOnline = m["online"].b
        /\ (~IsBool(m, "online") /\ NestedOnline(m, arg.name)) =>
               /\ ret.fn = "v1" => ret.out # "panic"
               /\ ReturnedOnline = m[arg.name].o["online"].b

\* C6: a 200 response whose body is an object with a top-level boolean
\* online = b gives online = b from every fetcher, whatever else the body
\* carries; without an updatedAt field there is no timestamp.
C6_TopLevelOnline ==
    (ret.fn # "none" /\ ParsedObject(arg.resp) /\ arg.resp.status = StatusOK
        /\ IsBool(arg.resp.body.o, "online")) =>
        LET b == arg.resp.body.o["online"].b IN
        /\ ReturnedMainOrTS => ret.online = b
        /\ ret.fn = "v1" => ret.out = (IF b THEN "true" ELSE "false")
        /\ (ret.fn = "ts" /\ ~Has(arg.resp.body.o, "updatedAt")) => ret.updatedAt = ZeroTime

\* C6 happens: online = true came back from a body that also carries a
\* field named as the gateway.
C6_Witness ==
    /\ ret.fn = "main"
    /\ ParsedObject(arg.resp) /\ arg.resp.status = StatusOK
    /\ IsBool(arg.resp.body.o, "online") /\ arg.resp.body.o["online"].b
    /\ Has(arg.resp.body.o, NestedKey)
    /\ ret.online = TRUE

\* The updatedAt field of the object is a string that parses as RFC 3339.
ValidUpdatedAt(m) == IsString(m, "updatedAt") /\ ~ParseRFC3339(m["updatedAt"].s).err

\* C7: for a parsed body with an online status the ts fetcher returns the
\* time of the updatedAt field when the field is present, is a string and
\* parses as RFC 3339, and no time in every other case; the online value it
\* returns is that of the body either way.
C7_UpdatedAt ==
    (ret.fn = "ts" /\ ParsedObject(arg.resp) /\ arg.resp.status = StatusOK
        /\ IsBool(arg.resp.body.o, "online")) =>
        LET m == arg.resp.body.o IN
        /\ ValidUpdatedAt(m) => ret.updatedAt = ParseRFC3339(m["updatedAt"].s).t
        /\ ~ValidUpdatedAt(m) => ret.updatedAt = ZeroTime
        /\ ret.online = m["online"].b

\* C7 happens: online = true came back with no time from a body whose
\* updatedAt is a string that does not parse.
C7_Witness ==
    /\ ret.fn = "ts"
    /\ ParsedObject(arg.resp) /\ arg.resp.status = StatusOK
    /\ IsString(arg.resp.body.o, "updatedAt") /\ ~ValidUpdatedAt(arg.resp.body.o)
    /\ ret.online = TRUE
    /\ ret.updatedAt = ZeroTime

(***************************************************************************)
(* Properties of init(), checked under SpecInit.                           *)
(***************************************************************************)
\* FETCH_INTERVAL is set to a positive integer an int holds.
PositiveInterval(e) ==
    /\ ~Atoi(Getenv(e)).err
    /\ ~Atoi(Getenv(e)).neg
    /\ ~IsZero64(Atoi(Getenv(e)).mag)

\* C10 as stated: once init() has run the interval is strictly positive: n
\* minutes, without wrap-around, for every positive integer n of
\* FETCH_INTERVAL, and one minute when FETCH_INTERVAL is absent, no integer,
\* zero or negative.
C10_IntervalPositive ==
    mainpc # "init" =>
        /\ IsPositive64(fetchInterval)
        /\ PositiveInterval(env) =>
               /\ FitsInt64(Atoi(Getenv(env)).mag, Minute)
               /\ fetchInterval = Mul64(Atoi(Getenv(env)).mag, Minute)
        /\ ~PositiveInterval(env) => fetchInterval = Minute

(***************************************************************************)
(* Properties of the monitor loop, checked under Spec.                     *)
(***************************************************************************)
\* The links of the configuration, <<gateway index, check index>>, in the
\* order of the two loops.
RECURSIVE LinksFrom(_)
LinksFrom(g) ==
    IF g > Len(gateways) THEN <<>>
    ELSE [c \in 1..Len(gateways[g].checks) |-> <<g, c>>] \o LinksFrom(g + 1)

ConfiguredLinks == LinksFrom(1)

\* The links fetched in the current cycle, in order.
FetchedLinks == [i \in DOMAIN log |-> <<log[i].gi, log[i].ci>>]

IsLinkPub(p) == p.vec = "link"

\* The link statuses published in the current cycle, in order.
LinkPubs == SelectSeq(pubs, IsLinkPub)

\* The cycle is over: MonitorGateways is in time.Sleep.
CycleDone == Running /\ pc = "sleep"

TotalChecks == Len(ConfiguredLinks)

NoCheckGateways == {g \in DOMAIN gateways : Len(gateways[g].checks) = 0}

\* C8: a gateway with no check is never fetched for and never has a link
\* status published, so that every link-status series is that of a check of
\* the configuration; its location has been published, with value 1, by the
\* end of every cycle.
C8_NoCheckGateway ==
    /\ \A i \in DOMAIN log : log[i].gi \notin NoCheckGateways
    /\ \A i \in DOMAIN pubs : pubs[i].vec = "link" => pubs[i].gi \notin NoCheckGateways
    /\ \A k \in DOMAIN linkStatus :
          \E l \in DOMAIN ConfiguredLinks :
             k = LinkLabels(gateways[ConfiguredLinks[l][1]],
                            gateways[ConfiguredLinks[l][1]].checks[ConfiguredLinks[l][2]])
    /\ CycleDone =>
          \A g \in NoCheckGateways :
             /\ \E i \in DOMAIN pubs :
                   /\ pubs[i].vec = "location"
                   /\ pubs[i].gi = g
                   /\ pubs[i].labels = LocationLabels(gateways[g])
                   /\ pubs[i].v = 1
             /\ LocationLabels(gateways[g]) \in DOMAIN location
             /\ location[LocationLabels(gateways[g])] = 1

\* C8 happens: the second cycle is over for a gateway with two links
\* followed by a gateway with no check, whose location is published.
C8_Witness ==
    /\ CycleDone
    /\ cycle = 2
    /\ Len(gateways) = 2
    /\ NoCheckGateways = {2}
    /\ Len(log) = 2
    /\ pubs[Len(pubs)].vec = "location" /\ pubs[Len(pubs)].gi = 2
    /\ DOMAIN linkStatus = {<<"gw1", "u1">>, <<"gw1", "u2">>}

\* The key of the link UpdateGatewayStatus is publishing, between the fetch
\* and the end of Set.
Publishing(k) ==
    /\ pc \in {"linkWith", "linkSet"}
    /\ k = LinkLabels(gateway, check)

\* The values completed fetches of the link of key k have produced that a
\* scrape may show: that of the latest fetch and, while that one is being
\* published, that of the fetch before it.
FetchedValues(k) ==
    (IF k \in DOMAIN lastFetched THEN {BoolToFloat64(lastFetched[k])} ELSE {})
    \cup (IF Publishing(k) /\ before.has THEN {BoolToFloat64(before.online)} ELSE {})

\* C9 as stated: a scrape shows for every link-status series a value that a
\* completed fetch of that link produced, the previous one or the new one,
\* also while the series is being created.
C9_ScrapeSeesFetchedValues ==
    scraped.served =>
        \A k \in DOMAIN scraped.linkStatus : scraped.linkStatus[k] \in FetchedValues(k)

\* C9 amended: a scrape shows for every link-status series on which a Set
\* has completed a value that a completed fetch of that link produced, the
\* previous one or the new one; for a series that With has created and no
\* Set has written yet it shows the default 0, whatever the fetch returned.
C9_ScrapeOfWrittenSeries ==
    scraped.served =>
        \A k \in DOMAIN scraped.linkStatus :
            IF k \in written
            THEN scraped.linkStatus[k] \in FetchedValues(k)
            ELSE Publishing(k) /\ pc = "linkSet" /\ scraped.linkStatus[k] = 0

\* C9 happens: a scrape falls between With and Set of a series that held 1
\* and is set to 1 again, and shows the 1.
C9_Witness ==
    /\ scraped.served
    /\ pc = "linkSet"
    /\ LinkLabels(gateway, check) \in written
    /\ before.has /\ before.online
    /\ result.online
    /\ scraped.linkStatus[LinkLabels(gateway, check)] = 1


(***************************************************************************)
(* Properties of the ts revision, checked under SpecTS.                    *)
(***************************************************************************)
\* C4 as stated: the last-update marker of a link is published only if the
\* fetch of the link returned a timestamp: UpdateGatewayStatus has created
\* the marker's series, and is about to set it, only with a timestamp.
C4_MarkerOnlyWithTimestamp ==
    (Running /\ pc = "luSet") => result.updatedAt # ZeroTime

(***************************************************************************)
(* Further properties of the monitor loop, checked under Spec.             *)
(***************************************************************************)
\* UpdateGatewayStatus is publishing a link status its series already holds.
RepublishingLink ==
    /\ Running
    /\ pc \in {"linkWith", "linkSet"}
    /\ LinkLabels(gateway, check) \in written
    /\ linkStatus[LinkLabels(gateway, check)] = BoolToFloat64(result.online)

\* UpdateGatewayStatus is publishing a location it has published before.
RepublishingLocation ==
    /\ Running
    /\ pc \in {"locWith", "locSet"}
    /\ <<"location", LocationLabels(gateway)>> \in markers

\* C11: publishing is idempotent: no step of publishing a link status that
\* the series already holds, and no step of publishing a location again,
\* changes the registry: same values, same series, none added.
C11_PublishIdempotent ==
    [][/\ RepublishingLink => linkStatus' = linkStatus
       /\ RepublishingLocation => location' = location]_vars

\* C11 happens: within one cycle the same link was published online twice
\* and its location twice, and the registry holds one series of each, with
\* value 1.
C11_Witness ==
    /\ CycleDone
    /\ Len(pubs) = 4
    /\ pubs[1].vec = "location" /\ pubs[3].vec = "location"
    /\ pubs[1].labels = pubs[3].labels
    /\ pubs[2].vec = "link" /\ pubs[4].vec = "link"
    /\ pubs[2].labels = pubs[4].labels
    /\ pubs[2].v = 1 /\ pubs[4].v = 1
    /\ linkStatus = (pubs[2].labels :> 1)
    /\ location = (pubs[1].labels :> 1)

(***************************************************************************)
(* Progress of the monitor loop, checked under SpecLive.                   *)
(***************************************************************************)
\* C12: the monitor loop has no terminal state: with every fetch returning,
\* a process that serves always reaches the sleep again, and every sleep is
\* followed by the start of a new cycle, whatever the fetches returned.
C12_LoopNeverEnds ==
    /\ (mainpc = "serve") ~> (pc = "sleep")
    /\ (mainpc = "serve" /\ pc = "sleep") ~> (pc = "gateway" /\ gi = 1 /\ log = <<>>)

\* C12 happens: a further cycle starts after a cycle in which every link
\* of a configuration with links was found offline.
C12_Witness ==
    /\ mainpc = "serve"
    /\ cycle = MaxCycles
    /\ pc = "gateway" /\ gi = 1 /\ log = <<>>
    /\ DOMAIN lastFetched # {}
    /\ \A k \in DOMAIN lastFetched : ~lastFetched[k] /\ linkStatus[k] = 0

(***************************************************************************)
(* Properties of startup, checked under Spec.                              *)
(***************************************************************************)
\* C13: the configuration is loaded once, at the start of main, and a load
\* failure is fatal: with a file that cannot be read or parsed the process
\* never gets past the load, so the monitor goroutine is never started,
\* nothing is fetched or published and no scrape is served; with a file
\* that loads, the gateways are those of the file from the load on.
C13_LoadFailureIsFatal ==
    /\ LoadGatewaysConfig(file).err =>
          /\ mainpc \in {"init", "main", "exited"}
          /\ pc = "off"
          /\ cycle = 0 /\ log = <<>> /\ pubs = <<>>
          /\ linkStatus = NoSeries /\ location = NoSeries /\ lastUpdate = NoSeries
          /\ ~scraped.served
          /\ gateways = <<>>
    /\ ~LoadGatewaysConfig(file).err =>
          /\ mainpc \in {"init", "main"} => gateways = <<>>
          /\ mainpc \notin {"init", "main"} => gateways = LoadGatewaysConfig(file).gateways

\* C13 happens: the process has exited on a configuration file that is
\* readable and is no valid JSON.
C13_Witness ==
    /\ mainpc = "exited"
    /\ file.readable /\ ~file.valid
    /\ pc = "off"

(***************************************************************************)
(* Properties of the dashboard renderer, checked under SpecV1.             *)
(***************************************************************************)
\* The dashboard file of the gateway at index g is on disk, complete.
DashboardPresent(g) ==
    /\ DashboardPath(gateways[g]) \in DOMAIN dashboards
    /\ dashboards[DashboardPath(gateways[g])].complete

\* C14: the renderer is invoked for the gateways one by one at startup and
\* every render has completed before the monitor loop starts: as long as a
\* gateway is left to render, a failed render included, there is no monitor
\* goroutine, no fetch and no series; once the loop has started the file of
\* every gateway is on disk.
C14_RenderBeforeMonitor ==
    /\ ri \in 1..(Len(gateways) + 1)
    /\ \A g \in 1..(ri - 1) : DashboardPath(gateways[g]) \in DOMAIN dashboards
    /\ ri <= Len(gateways) =>
          /\ mainpc \in {"loaded", "exited"}
          /\ pc = "off"
          /\ cycle = 0 /\ log = <<>> /\ pubs = <<>>
          /\ onlineStatus = NoSeries
          /\ ~scraped.served
    /\ cycle > 0 =>
          /\ ri = Len(gateways) + 1
          /\ \A g \in DOMAIN gateways : DashboardPresent(g)

\* C14 happens: the first fetch has been made for a configuration of two
\* gateways, with two dashboard files on disk.
C14_Witness ==
    /\ cycle = 1
    /\ Len(log) = 1
    /\ Len(gateways) = 2
    /\ ri = 3
    /\ Cardinality(DOMAIN dashboards) = 2

\* main is past the loop over the gateways, every render having succeeded.
RendersDone ==
    /\ mainpc \notin {"init", "main"}
    /\ ~LoadGatewaysConfig(file).err
    /\ ri > Len(gateways)

\* No two gateways of the configuration have the same name.
DistinctNames ==
    \A g, h \in DOMAIN gateways : gateways[g].name = gateways[h].name => g = h

\* The gateway rendered last among those named as the gateway at index g.
LastNamedAs(g) ==
    CHOOSE h \in DOMAIN gateways :
        /\ gateways[h].name = gateways[g].name
        /\ \A k \in DOMAIN gateways : gateways[k].name = gateways[g].name => k <= h

\* C15 as stated: for every configuration that loads, load followed by
\* render leaves exactly one dashboard file for each configured gateway, at
\* a path that depends on the name of the gateway only.
C15_OneFilePerGateway ==
    RendersDone =>
        /\ \A g \in DOMAIN gateways : DashboardPresent(g)
        /\ Cardinality(DOMAIN dashboards) = Len(gateways)

\* C15 amended: load followed by render leaves exactly one dashboard file
\* for each distinct gateway name of the configuration, at a path that
\* depends on the name only, holding the coordinates of the gateway of that
\* name listed last; when the names are distinct that is one file for each
\* gateway, with the gateway's own coordinates.
C15_OneFilePerName ==
    RendersDone =>
        /\ DOMAIN dashboards = {DashboardPath(gateways[g]) : g \in DOMAIN gateways}
        /\ Cardinality(DOMAIN dashboards) =
              Cardinality({gateways[g].name : g \in DOMAIN gateways})
        /\ \A g \in DOMAIN gateways :
              dashboards[DashboardPath(gateways[g])] = Rendered(gateways[LastNamedAs(g)])
        /\ DistinctNames =>
              /\ Cardinality(DOMAIN dashboards) = Len(gateways)
              /\ \A g \in DOMAIN gateways :
                    dashboards[DashboardPath(gateways[g])] = Rendered(gateways[g])

\* C15 happens: two gateways of different names, one of them without
\* checks, have been rendered into two files.
C15_Witness ==
    /\ RendersDone
    /\ Len(gateways) = 2
    /\ DistinctNames
    /\ \E g \in DOMAIN gateways : gateways[g].checks = <<>>
    /\ Cardinality(DOMAIN dashboards) = 2

(***************************************************************************)
(* Order within and across cycles, checked under Spec.                     *)
(***************************************************************************)
\* UpdateGatewayStatus holds a fetched result it has not published yet.
ResultPending == pc \in {"linkWith", "linkSet"}

\* C16: within a cycle the links are fetched in the order of the
\* configuration, gateways first and checks within them; each result is
\* published before the next fetch; the sleep starts only when every gateway
\* and link has been processed; and no fetch is made while the result of an
\* earlier fetch, of this cycle or of the one before, is unpublished.
C16_Order ==
    /\ Len(log) <= TotalChecks
    /\ \A i \in DOMAIN log : FetchedLinks[i] = ConfiguredLinks[i]
    /\ \A i \in 1..(Len(pubs) - 1) :
          \/ pubs[i].gi < pubs[i + 1].gi
          \/ pubs[i].gi = pubs[i + 1].gi /\ pubs[i].vec = "location" /\ pubs[i + 1].ci = 1
          \/ pubs[i].gi = pubs[i + 1].gi /\ pubs[i].vec = "link" /\ pubs[i + 1].ci = pubs[i].ci + 1
    /\ Len(LinkPubs) = Len(log) - (IF ResultPending THEN 1 ELSE 0)
    /\ \A i \in DOMAIN LinkPubs :
          /\ LinkPubs[i].gi = log[i].gi /\ LinkPubs[i].ci = log[i].ci
          /\ LinkPubs[i].v = BoolToFloat64(log[i].online)
    /\ pc = "sleep" =>
          /\ FetchedLinks = ConfiguredLinks
          /\ Len(LinkPubs) = TotalChecks
          /\ Len(pubs) = TotalChecks + Len(gateways)
    /\ \A k \in DOMAIN lastFetched :
          ~Publishing(k) => k \in written /\ linkStatus[k] = BoolToFloat64(lastFetched[k])

\* C16 happens: in the second cycle the link of the second gateway has been
\* fetched, after the two links of the first were fetched and published.
C16_Witness ==
    /\ cycle = 2
    /\ pc = "linkSet"
    /\ gi = 2 /\ ci = 1
    /\ Len(log) = 3
    /\ Len(LinkPubs) = 2
    /\ Len(pubs) = 4

(***************************************************************************)
(* Properties of the marker series, checked under SpecTS.                  *)
(***************************************************************************)
\* C17 as stated: every gateway_location and gateway_last_update_timestamp
\* series a scrape shows has value 1, also when the scrape falls between the
\* creation of the series and the write of its value.
C17_MarkersAreOne ==
    scraped.served =>
        /\ \A k \in DOMAIN scraped.location : scraped.location[k] = 1
        /\ \A k \in DOMAIN scraped.lastUpdate : scraped.lastUpdate[k] = 1

\* C17 amended: a marker series on which a Set has completed has value 1
\* from then on, in the registry and in every scrape; a scrape that falls
\* between With and Set of a series being created shows that series with
\* the default 0.
C17_MarkersAreOneOnceSet ==
    /\ \A k \in DOMAIN location : <<"location", k>> \in markers => location[k] = 1
    /\ \A k \in DOMAIN lastUpdate : <<"lastUpdate", k>> \in markers => lastUpdate[k] = 1
    /\ scraped.served =>
          /\ \A k \in DOMAIN scraped.location :
                IF <<"location", k>> \in markers
                THEN scraped.location[k] = 1
                ELSE /\ pc = "locSet" /\ k = LocationLabels(gateway)
                     /\ scraped.location[k] = 0
          /\ \A k \in DOMAIN scraped.lastUpdate :
                IF <<"lastUpdate", k>> \in markers
                THEN scraped.lastUpdate[k] = 1
                ELSE /\ pc = "luSet" /\ k = LastUpdateLabels(gateway, result.updatedAt)
                     /\ scraped.lastUpdate[k] = 0

\* C17 happens: a scrape falls between With and Set of a last-update series
\* published before, and shows it and the location of its gateway with 1.
C17_Witness ==
    /\ scraped.served
    /\ pc = "luSet"
    /\ <<"lastUpdate", LastUpdateLabels(gateway, result.updatedAt)>> \in markers
    /\ scraped.lastUpdate[LastUpdateLabels(gateway, result.updatedAt)] = 1
    /\ scraped.location[LocationLabels(gateway)] = 1

\* C18: every step leaves each series key with one value, every link status
\* 0 or 1, and every series that was there still there: the sets of series
\* keys only grow, so the last-update series of an older timestamp stays
\* when a newer timestamp is published.
C18_SeriesOnlyGrow ==
    [][/\ DOMAIN linkStatus \subseteq DOMAIN linkStatus'
       /\ DOMAIN location \subseteq DOMAIN location'
       /\ DOMAIN lastUpdate \subseteq DOMAIN lastUpdate'
       /\ \A k \in DOMAIN linkStatus' : linkStatus'[k] \in {0, 1}]_vars

\* C18 happens: a gateway has two last-update series, for two timestamps,
\* both with value 1.
C18_Witness ==
    \E k, q \in DOMAIN lastUpdate :
        /\ k[1] = q[1]
        /\ k[2] = FormatRFC3339(1) /\ q[2] = FormatRFC3339(2)
        /\ lastUpdate[k] = 1 /\ lastUpdate[q] = 1
        /\ cycle = 2

(***************************************************************************)
(* The registry at the end of a cycle, checked under Spec.                 *)
(***************************************************************************)
\* The link-status key of the fetch at index i of the log.
KeyOfFetch(i) == LinkLabels(gateways[log[i].gi], gateways[log[i].gi].checks[log[i].ci])

\* The last fetch of the cycle for the key k.
LastFetchFor(k) ==
    CHOOSE i \in DOMAIN log :
        /\ KeyOfFetch(i) = k
        /\ \A j \in DOMAIN log : KeyOfFetch(j) = k => j <= i

\* C19: at the end of every cycle the link-status series of every
\* configured <<gateway name, link URL>> is there and holds 1 exactly when
\* the last fetch of the cycle for a check of that name and URL returned
\* online: of several checks sharing the pair the one processed last decides.
C19_LatestLiveness ==
    CycleDone =>
        /\ DOMAIN linkStatus = {KeyOfFetch(i) : i \in DOMAIN log}
        /\ \A k \in DOMAIN linkStatus :
              /\ linkStatus[k] \in {0, 1}
              /\ linkStatus[k] = 1 <=> log[LastFetchFor(k)].online

\* C19 happens: a cycle is over in which a link was fetched twice, first
\* online and then offline, and its series holds 0.
C19_Witness ==
    /\ CycleDone
    /\ \E i, j \in DOMAIN log :
         /\ i < j
         /\ KeyOfFetch(i) = KeyOfFetch(j)
         /\ log[i].online /\ ~log[j].online
         /\ linkStatus[KeyOfFetch(j)] = 0

(***************************************************************************)
(* Status extraction on any object, checked under SpecFetch.               *)
(***************************************************************************)
\* C20 as stated: for every body that is a JSON object, whatever the value
\* under the gateway's own name and whatever a nested online holds, the
\* extraction completes with a boolean, which is false when neither a
\* top-level nor a nested boolean online is there.
C20_ExtractionCompletes ==
    (ret.fn # "none" /\ ParsedObject(arg.resp) /\ arg.resp.status = StatusOK) =>
        /\ ret.fn = "v1" => ret.out \in {"true", "false"}
        /\ ReturnedMainOrTS => ret.online \in BOOLEAN
        /\ (~IsBool(arg.resp.body.o, "online") /\ ~NestedOnline(arg.resp.body.o, arg.name)) =>
               ReturnedOnline = FALSE

(***************************************************************************)
(* The frame of UpdateGatewayStatus, checked under Spec.                   *)
(***************************************************************************)
\* The goroutine is inside UpdateGatewayStatus(gateways[gi]).
InUpdateGatewayStatus ==
    /\ Running
    /\ pc \in {"locWith", "locSet", "check", "linkWith", "linkSet", "luWith", "luSet"}

\* From the vector old to the vector new every series of another gateway
\* name is kept with its value, and every new series carries the name.
OtherNamesKept(old, new, name) ==
    /\ \A k \in DOMAIN old : k[1] # name => (k \in DOMAIN new /\ new[k] = old[k])
    /\ \A k \in DOMAIN new : k \notin DOMAIN old => k[1] = name

\* C21: no step taken while a gateway is processed changes a series
\* labelled with another gateway name or creates one, in any of the metric
\* vectors, and none changes the loaded configuration.
C21_UpdateFrame ==
    [][InUpdateGatewayStatus =>
          /\ gateways' = gateways
          /\ OtherNamesKept(location, location', gateway.name)
          /\ OtherNamesKept(linkStatus, linkStatus', gateway.name)
          /\ OtherNamesKept(lastUpdate, lastUpdate', gateway.name)
          /\ OtherNamesKept(onlineStatus, onlineStatus', gateway.name)]_vars

\* C21 happens: the second gateway's link has just been published offline
\* while the series of the same URL under the first gateway's other name
\* holds 1.
C21_Witness ==
    /\ InUpdateGatewayStatus
    /\ gi = 2 /\ pc = "check" /\ ci = 2
    /\ gateways[1].name # gateways[2].name
    /\ \E i \in DOMAIN pubs :
         /\ pubs[i].vec = "link" /\ pubs[i].gi = 2 /\ pubs[i].v = 0
         /\ linkStatus[pubs[i].labels] = 0
         /\ <<gateways[1].name, pubs[i].labels[2]>> \in DOMAIN linkStatus
         /\ linkStatus[<<gateways[1].name, pubs[i].labels[2]>>] = 1


====
